---- MODULE Spec2Model ----
(***************************************************************************)
(* Subscription billing and lifecycle engine.                              *)
(*                                                                         *)
(*   subscription/lifecycle  SubscriptionLifecycleManager                   *)
(*   subscription/billing    BillingEngine                                  *)
(*   payment/gateways        MockPaymentGateway, YooMoneyGateway            *)
(*   core/models             Subscription, Transaction, SubscriptionPlan    *)
(*                                                                         *)
(* Time is counted in whole days.  Money is counted in minor units.        *)
(* A billing / retry worker works on the Subscription object it was handed *)
(* when the batch was selected (billing line 42, 48): values it reads from *)
(* `subscription.x` are those of that object, writes go to the stored row. *)
(* The payment processor and the persistence helpers are not part of the   *)
(* source tree; they follow sections 4.3, 4.5 and 4.6 of the specification.*)
(***************************************************************************)
EXTENDS Integers, Sequences, FiniteSets, TLC

\* ------------------------------------------------------------------ bounds
MaxTime == 2
MaxSubs == 1
MaxTx == 2
MaxBatch == 3
MaxTasks == 1
MaxDrivers == 2
MaxRetryCount == 6
MaxTotalDays == 3

\* ------------------------------------------------------------ input domains
Users == {"u1"}
Workers == {"w1", "w2"}
Gateways == {"mock", "yoomoney"}

\* Python None for the nullable DateTime columns
None == -1

\* subscription_plans rows used as inputs (price in minor units)
Plan ==
  [ basic   |-> [price |-> 1000, billing_cycle_days |-> 2,
                 trial_period_days |-> 0, max_retries |-> 2],
    trial   |-> [price |-> 2000, billing_cycle_days |-> 1,
                 trial_period_days |-> 1, max_retries |-> 2],
    premium |-> [price |-> 3000, billing_cycle_days |-> 2,
                 trial_period_days |-> 0, max_retries |-> 1],
    free    |-> [price |-> 0, billing_cycle_days |-> 1,
                 trial_period_days |-> 0, max_retries |-> 1],
    longtrial |-> [price |-> 1000, billing_cycle_days |-> 1,
                   trial_period_days |-> 2, max_retries |-> 1],
    patient |-> [price |-> 1000, billing_cycle_days |-> 3,
                 trial_period_days |-> 0, max_retries |-> 8] ]

\* the plans of the ordinary catalogue (a price, the trial inside the first
\* period, at most the default number of retries), and all plans the table
\* admits (check_price_non_negative admits 0; trial_period_days and
\* max_retries are not constrained)
PlanIds ==
  {p \in DOMAIN Plan :
     /\ Plan[p].price > 0
     /\ Plan[p].trial_period_days <= Plan[p].billing_cycle_days
     /\ Plan[p].max_retries <= 3}
AllPlanIds == DOMAIN Plan

\* retry_failed_payments(max_retries=3), called without argument by the
\* scheduler (task_scheduler.py line 289)
DefaultMaxRetries == 3

\* BillingEngine.retry_config
InitialDelay == 1
BackoffFactor == 2

\* MockPaymentGateway.charge error_reasons
ErrorReasons ==
  {"Insufficient funds", "Card expired", "Payment gateway timeout",
   "Invalid payment method"}

\* what one gateway call can come back with
Rolls == {"ok"} \cup ErrorReasons

NonTerminal == {"pending", "trial", "active", "past_due"}
Terminal == {"cancelled", "expired"}

VARIABLES
  now,        \* wall clock, in days
  gateway,    \* PaymentGatewayFactory.create_gateway tag
  counter,    \* MockPaymentGateway._counter
  gwTx,       \* MockPaymentGateway.transactions: reference -> status
  stamp,      \* datetime.now().timestamp() as read by YooMoneyGateway
  subs,       \* subscriptions table, row id = index
  txs,        \* transactions table, row id = index
  workers,    \* billing / retry workers in flight
  batch,      \* one call of a batch entry point: its selection and results
  sched,      \* TaskScheduler: tasks, driver thread and pool
  zeroSubmitted, \* process_payment has been called with amount 0
  calc        \* one call of a computation: its arguments and its result

vars ==
  <<now, gateway, counter, gwTx, stamp, subs, txs, workers, batch, sched,
    zeroSubmitted, calc>>

\* --------------------------------------------------------------- helpers
RECURSIVE Pow(_, _)
Pow(b, e) == IF e <= 0 THEN 1 ELSE b * Pow(b, e - 1)

\* decimal quantize ROUND_HALF_UP of num/den, for num >= 0, den > 0
RoundHalfUp(num, den) == (2 * num + den) \div (2 * den)

Max(a, b) == IF a >= b THEN a ELSE b

RECURSIVE SumAmounts(_, _)
SumAmounts(S, f) ==
  IF S = {} THEN 0
  ELSE LET x == CHOOSE y \in S : TRUE
       IN  txs[x].amount * f[x] + SumAmounts(S \ {x}, f)

BlankSub ==
  [user |-> "", plan |-> "", first_plan |-> "", status |-> "",
   current_period_start |-> None, current_period_end |-> None,
   trial_end |-> None, cancel_at_period_end |-> FALSE,
   cancelled_at |-> None, retry_count |-> 0, retry_at |-> None,
   auto_renew |-> TRUE]

\* the attributes a worker reads from the Subscription object it was handed
Snapshot(row) ==
  [user |-> row.user, plan |-> row.plan,
   current_period_end |-> row.current_period_end,
   retry_count |-> row.retry_count]

IdleWorker ==
  [pc |-> "idle", kind |-> "none", sub |-> 0, obj |-> Snapshot(BlankSub),
   lock |-> 0]

\* the driver threads TaskScheduler.start can have created
DriverIds == 1..MaxDrivers

\* no thread in this place: start was not called, or the loop has ended
NoDriver == [pc |-> "none", job |-> 0, todo |-> {}]

\* _wrap_task has written nothing to the log yet
NoLog == [task |-> 0, event |-> "none"]

\* no call of cancel_task has returned yet
NoCall == [op |-> "none", id |-> 0, value |-> FALSE]

\* TaskScheduler.__init__: no task registered, the driver not started
NoTasks ==
  [tasks |-> <<>>, jobs |-> <<>>, started |-> <<>>, abandoned |-> <<>>,
   is_running |-> FALSE, thread |-> 0,
   drivers |-> [d \in DriverIds |-> NoDriver], ret |-> NoCall,
   logged |-> NoLog]

\* no computation has been called
NoCalc == [op |-> "none"]

\* no batch entry point is running
IdleBatch ==
  [kind |-> "none", state |-> "idle", selected |-> <<>>, pending |-> {},
   results |-> <<>>]

SubIds == DOMAIN subs
TxIds == DOMAIN txs

\* ------------------------------------------------------ payment gateways
\* MockPaymentGateway.charge reporting success without a transaction id
MockChargeNoReference(cnt, roll) ==
  IF roll \in ErrorReasons
  THEN [ok |-> FALSE, detail |-> <<roll>>, counter |-> cnt + 1,
        stored |-> <<>>]
  ELSE [ok |-> TRUE, detail |-> <<>>, counter |-> cnt + 1, stored |-> <<>>]

\* MockPaymentGateway.charge: counter is bumped on every call; a success
\* stores the transaction and returns its id, a failure returns a reason.
MockCharge(cnt, roll) ==
  LET transaction_id == <<"mock_tx", cnt + 1>>
  IN  IF roll \in ErrorReasons
      THEN [ok |-> FALSE, detail |-> <<roll>>, counter |-> cnt + 1,
            stored |-> <<>>]
      ELSE [ok |-> TRUE, detail |-> transaction_id, counter |-> cnt + 1,
            stored |-> <<transaction_id>>]

\* YooMoneyGateway._get_headers: the Idempotence-Key of a request is the
\* wall-clock timestamp at which the headers are built.
YooMoneyIdempotenceKey(ts) == <<"ts", ts>>

\* YooMoneyGateway.charge: ok with the provider's payment id when the
\* response status is "succeeded", otherwise the description.
YooMoneyCharge(ts, roll) ==
  LET key == YooMoneyIdempotenceKey(ts)
      response == IF roll = "ok"
                  THEN [status |-> "succeeded", id |-> <<"yk", ts>>]
                  ELSE [status |-> "canceled", id |-> <<roll>>]
  IN  IF response.status = "succeeded"
      THEN [ok |-> TRUE, detail |-> response.id, key |-> key]
      ELSE [ok |-> FALSE, detail |-> response.id, key |-> key]

\* MockPaymentGateway.refund
MockRefund(store, cnt, transaction_id) ==
  IF transaction_id \notin DOMAIN store
  THEN [ok |-> FALSE, detail |-> <<"Transaction not found">>, store |-> store]
  ELSE [ok |-> TRUE, detail |-> <<"mock_refund", cnt>>,
        store |-> [store EXCEPT ![transaction_id] = "refunded"]]

\* YooMoneyGateway.refund
YooMoneyRefund(ts, roll) ==
  IF roll = "ok"
  THEN [ok |-> TRUE, detail |-> <<"yk_refund", ts>>]
  ELSE [ok |-> FALSE, detail |-> <<roll>>]

\* gateway.charge of the configured gateway, with the gateway's next state
GatewayCharge(roll) ==
  IF gateway = "mock"
  THEN LET r == MockCharge(counter, roll)
       IN  [ok |-> r.ok, detail |-> r.detail, counter |-> r.counter,
            gwTx |-> IF r.ok
                     THEN [k \in DOMAIN gwTx \cup {r.detail} |->
                             IF k = r.detail THEN "completed" ELSE gwTx[k]]
                     ELSE gwTx,
            stamp |-> stamp]
  ELSE LET r == YooMoneyCharge(stamp + 1, roll)
       IN  [ok |-> r.ok, detail |-> r.detail, counter |-> counter,
            gwTx |-> gwTx, stamp |-> stamp + 1]

\* gateway.refund of the configured gateway
GatewayRefund(reference, roll) ==
  IF gateway = "mock"
  THEN LET r == MockRefund(gwTx, counter, reference)
       IN  [ok |-> r.ok, detail |-> r.detail, gwTx |-> r.store,
            stamp |-> stamp]
  ELSE LET r == YooMoneyRefund(stamp + 1, roll)
       IN  [ok |-> r.ok, detail |-> r.detail, gwTx |-> gwTx,
            stamp |-> stamp + 1]

\* ------------------------------------------------------ payment processor
\* Transaction.__table_args__: check_amount_non_zero
CheckAmountNonZero(amount) == amount # 0

\* PaymentProcessor.process_payment (specification 4.3): a transaction row
\* is written, the gateway is charged, the row becomes completed with the
\* gateway reference, or failed with the classified reason.  A row the table
\* refuses ends the call before the gateway is reached.
ProcessPayment(sub, user, amount, type, cycle, roll) ==
  LET persisted == CheckAmountNonZero(amount)
      g == IF persisted THEN GatewayCharge(roll)
           ELSE [ok |-> FALSE, detail |-> <<"check_amount_non_zero">>,
                 counter |-> counter, gwTx |-> gwTx, stamp |-> stamp]
  IN  [gw |-> g,
       ok |-> g.ok,
       persisted |-> persisted,
       error |-> IF g.ok THEN "none"
                 ELSE IF ~persisted THEN "rejected"
                 ELSE IF g.detail = <<"Insufficient funds">>
                      THEN "insufficient_funds" ELSE "gateway_error",
       tx |-> [sub |-> sub, user |-> user, amount |-> amount,
               status |-> IF g.ok THEN "completed" ELSE "failed",
               type |-> type,
               gateway_reference |-> IF g.ok THEN g.detail ELSE <<>>,
               created_at |-> now, billing_cycle |-> cycle]]

\* the effect of one process_payment call on gateway and transactions
Charged(p) ==
  /\ txs' = IF p.persisted THEN Append(txs, p.tx) ELSE txs
  /\ zeroSubmitted' = (zeroSubmitted \/ p.tx.amount = 0)
  /\ counter' = p.gw.counter
  /\ gwTx' = p.gw.gwTx
  /\ stamp' = p.gw.stamp

\* -------------------------------------------------------------------- Init
Init ==
  /\ now = 0
  /\ gateway \in Gateways
  /\ counter = 0
  /\ gwTx = <<>>
  /\ stamp = 0
  /\ subs = <<>>
  /\ txs = <<>>
  /\ workers = [w \in Workers |-> IdleWorker]
  /\ batch = IdleBatch
  /\ sched = NoTasks
  /\ zeroSubmitted = FALSE
  /\ calc = NoCalc

\* the clock advances
Tick ==
  /\ now < MaxTime
  /\ now' = now + 1
  /\ UNCHANGED <<calc, sched, batch, zeroSubmitted, gateway, counter, gwTx, stamp,
                 subs, txs, workers>>

\* ------------------------------------------------------ lifecycle manager
\* _get_active_subscription(user_id) (specification 4.5, create: "an
\* active/trial/past_due subscription exists"); the caller passes the user
\* only.
GetActiveSubscription(user_id) ==
  {s \in SubIds : /\ subs[s].user = user_id
                  /\ subs[s].status \in {"active", "trial", "past_due"}}

\* _apply_promo_code: both branches return Decimal('0')
ApplyPromoCode(promo_code) == 0

\* _setup_trial_period
SetupTrialPeriod(trial_days, period_start, period_end) ==
  [start |-> period_start, end |-> period_start + trial_days, active |-> TRUE]

\* Subscription.__table_args__: unique (user_id, plan_id) where status is
\* 'active'
UniqueActiveUserPlan(row) ==
  \/ row.status # "active"
  \/ \A s \in SubIds :
       ~(subs[s].user = row.user /\ subs[s].plan = row.plan
         /\ subs[s].status = "active")

\* _create_subscription_record
CreateSubscriptionRecord(user_id, plan_id, status, start, end, trial_end) ==
  [user |-> user_id, plan |-> plan_id, first_plan |-> plan_id,
   status |-> status,
   current_period_start |-> start, current_period_end |-> end,
   trial_end |-> trial_end, cancel_at_period_end |-> FALSE,
   cancelled_at |-> None, retry_count |-> 0, retry_at |-> None,
   auto_renew |-> TRUE]

\* create_subscription: the existing-subscription check, the plan and the
\* period, the initial charge unless the plan has a trial, then the
\* subscription row.  A failed charge raises before the row is written.
CreateSubscriptionUpTo(cap, user_id, plan_id, roll) ==
  /\ Len(subs) < cap
  /\ GetActiveSubscription(user_id) = {}
  /\ LET plan == Plan[plan_id]
         discount == ApplyPromoCode("")
         period_start == now
         period_end == period_start + plan.billing_cycle_days
         has_trial == plan.trial_period_days > 0
         trial_period == SetupTrialPeriod(plan.trial_period_days,
                                          period_start, period_end)
         row == CreateSubscriptionRecord(user_id, plan_id,
                  IF has_trial THEN "active" ELSE "pending",
                  period_start, period_end,
                  IF has_trial THEN trial_period.end ELSE None)
         p == ProcessPayment(Len(subs) + 1, user_id,
                             plan.price - discount, "initial", None, roll)
     IN  IF has_trial
         THEN /\ roll = "ok"
              /\ UniqueActiveUserPlan(row)
              /\ subs' = Append(subs, row)
              /\ UNCHANGED <<txs, counter, gwTx, stamp, zeroSubmitted>>
         ELSE /\ Len(txs) < MaxTx
              /\ IF p.ok
                 THEN /\ Charged(p)
                      /\ subs' = Append(subs, row)
                 ELSE /\ Charged([p EXCEPT !.tx.sub = 0])
                      /\ subs' = subs
  /\ UNCHANGED <<calc, sched, batch, now, gateway, workers>>

CreateSubscription(user_id, plan_id, roll) ==
  CreateSubscriptionUpTo(MaxSubs, user_id, plan_id, roll)

\* the most recent completed charge of a subscription
LastCompletedCharge(s) ==
  LET C == {i \in TxIds : /\ txs[i].sub = s /\ txs[i].status = "completed"
                          /\ txs[i].type # "refund"}
  IN  IF C = {} THEN 0 ELSE CHOOSE i \in C : \A j \in C : j <= i

\* _cancel_immediately (specification 4.5, cancel immediate=true)
RefundAmount(sub) ==
  LET total == sub.current_period_end - sub.current_period_start
      used == Max(0, now - sub.current_period_start)
      remaining == Max(0, total - used)
  IN  RoundHalfUp(Plan[sub.plan].price * remaining, total)

\* cancel_subscription without the check of the status
AlreadyCancelledNever(subscription) == FALSE

\* cancel_subscription: "Subscription already cancelled"
AlreadyCancelled(subscription) == subscription.status = "cancelled"

\* the row of a subscription cancelled now
MarkCancelled(s) ==
  [subs EXCEPT ![s].status = "cancelled", ![s].cancelled_at = now]

\* _cancel_immediately marking the subscription whatever the refund answers
CancelImmediatelyBeforeRefund(s, roll) ==
  LET last == LastCompletedCharge(s)
      amount == RefundAmount(subs[s])
      r == GatewayRefund(txs[last].gateway_reference, roll)
  IN  IF amount = 0
      THEN /\ roll = "ok"
           /\ subs' = MarkCancelled(s)
           /\ UNCHANGED <<txs, gwTx, stamp>>
      ELSE /\ last # 0
           /\ Len(txs) < MaxTx
           /\ subs' = MarkCancelled(s)
           /\ txs' = IF r.ok
                     THEN Append([txs EXCEPT ![last].status = "refunded"],
                            [sub |-> s, user |-> subs[s].user,
                             amount |-> 0 - amount, status |-> "completed",
                             type |-> "refund",
                             gateway_reference |-> r.detail,
                             created_at |-> now, billing_cycle |-> None])
                     ELSE txs
           /\ gwTx' = r.gwTx
           /\ stamp' = r.stamp

\* _cancel_immediately (specification 4.5, cancel immediate=true): the
\* refund against the most recent completed charge; the subscription is
\* cancelled and the refund recorded when the gateway accepted it, and
\* nothing changes when it did not
CancelImmediately(s, roll) ==
  LET last == LastCompletedCharge(s)
      amount == RefundAmount(subs[s])
      r == GatewayRefund(txs[last].gateway_reference, roll)
  IN  IF amount = 0
      THEN /\ roll = "ok"
           /\ subs' = MarkCancelled(s)
           /\ UNCHANGED <<txs, gwTx, stamp>>
      ELSE /\ last # 0
           /\ Len(txs) < MaxTx
           /\ r.ok
           /\ subs' = MarkCancelled(s)
           /\ txs' = Append([txs EXCEPT ![last].status = "refunded"],
                [sub |-> s, user |-> subs[s].user,
                 amount |-> 0 - amount, status |-> "completed",
                 type |-> "refund", gateway_reference |-> r.detail,
                 created_at |-> now, billing_cycle |-> None])
           /\ gwTx' = r.gwTx
           /\ stamp' = r.stamp

\* cancel_subscription
CancelSubscription(s, immediate, roll) ==
  /\ s \in SubIds
  /\ ~AlreadyCancelled(subs[s])
  /\ IF immediate
     THEN CancelImmediately(s, roll)
     ELSE /\ roll = "ok"
          /\ ~subs[s].cancel_at_period_end
          /\ subs' = [subs EXCEPT ![s].cancel_at_period_end = TRUE]
          /\ UNCHANGED <<txs, gwTx, stamp>>
  /\ UNCHANGED <<calc, sched, batch, zeroSubmitted, now, gateway, counter, workers>>

\* _validate_upgrade letting an equal price through
ValidateUpgradeNotCheaper(current_plan, new_plan) ==
  new_plan.price >= current_plan.price

\* _validate_upgrade
ValidateUpgrade(current_plan, new_plan) == new_plan.price > current_plan.price

\* _calculate_prorated_amount, as the fraction num/den
CalculateProratedAmount(sub, current_plan, new_plan) ==
  LET days_used == now - sub.current_period_start
      total_days == sub.current_period_end - sub.current_period_start
      days_remaining == total_days - days_used
      num == new_plan.price * days_remaining - current_plan.price * days_used
  IN  [num |-> Max(num, 0), den |-> total_days]

\* _update_subscription_plan leaving the retry count as it was
UpdateSubscriptionPlanKeepsCount(sub, new_plan_id) ==
  [sub EXCEPT !.plan = new_plan_id]

\* _update_subscription_plan (specification 4.5, upgrade)
UpdateSubscriptionPlan(sub, new_plan_id) ==
  [sub EXCEPT !.plan = new_plan_id, !.retry_count = 0]

\* upgrade_subscription swapping the plan whatever the charge answers
UpgradeSubscriptionSwapsFirst(s, new_plan_id, roll) ==
  /\ s \in SubIds
  /\ LET subscription == subs[s]
         current_plan == Plan[subscription.plan]
         new_plan == Plan[new_plan_id]
         prorated == CalculateProratedAmount(subscription, current_plan,
                                             new_plan)
         p == ProcessPayment(s, subscription.user,
                             RoundHalfUp(prorated.num, prorated.den),
                             "upgrade", None, roll)
     IN  /\ ValidateUpgrade(current_plan, new_plan)
         /\ subs' = [subs EXCEPT ![s] =
                       UpdateSubscriptionPlan(@, new_plan_id)]
         /\ IF prorated.num > 0
            THEN Len(txs) < MaxTx /\ Charged(p)
            ELSE /\ roll = "ok"
                 /\ UNCHANGED <<txs, counter, gwTx, stamp, zeroSubmitted>>
  /\ UNCHANGED <<calc, sched, batch, now, gateway, workers>>

\* upgrade_subscription
UpgradeSubscription(s, new_plan_id, roll) ==
  /\ s \in SubIds
  /\ LET subscription == subs[s]
         current_plan == Plan[subscription.plan]
         new_plan == Plan[new_plan_id]
         prorated == CalculateProratedAmount(subscription, current_plan,
                                             new_plan)
         p == ProcessPayment(s, subscription.user,
                             RoundHalfUp(prorated.num, prorated.den),
                             "upgrade", None, roll)
     IN  /\ ValidateUpgrade(current_plan, new_plan)
         /\ IF prorated.num > 0
            THEN /\ Len(txs) < MaxTx
                 /\ Charged(p)
                 /\ subs' = IF p.ok
                            THEN [subs EXCEPT ![s] =
                                    UpdateSubscriptionPlan(@, new_plan_id)]
                            ELSE subs
            ELSE /\ roll = "ok"
                 /\ subs' = [subs EXCEPT ![s] =
                               UpdateSubscriptionPlan(@, new_plan_id)]
                 /\ UNCHANGED <<txs, counter, gwTx, stamp, zeroSubmitted>>
  /\ UNCHANGED <<calc, sched, batch, now, gateway, workers>>

\* _extend_subscription_period
ExtendSubscriptionPeriod(sub, next_end) ==
  [sub EXCEPT !.current_period_end = next_end]

\* renew_subscription without the check of the status
RenewSubscriptionAnyStatus(s, roll) ==
  /\ s \in SubIds
  /\ Len(txs) < MaxTx
  /\ LET subscription == subs[s]
         next_end == subscription.current_period_end
                       + Plan[subscription.plan].billing_cycle_days
         p == ProcessPayment(s, subscription.user,
                             Plan[subscription.plan].price, "manual", None,
                             roll)
     IN  /\ Charged(p)
         /\ subs' = IF p.ok
                    THEN [subs EXCEPT ![s] =
                            ExtendSubscriptionPeriod(@, next_end)]
                    ELSE subs
  /\ UNCHANGED <<calc, sched, batch, now, gateway, workers>>

\* renew_subscription
RenewSubscription(s, roll) ==
  /\ s \in SubIds
  /\ subs[s].status = "active"
  /\ Len(txs) < MaxTx
  /\ LET subscription == subs[s]
         next_end == subscription.current_period_end
                       + Plan[subscription.plan].billing_cycle_days
         p == ProcessPayment(s, subscription.user,
                             Plan[subscription.plan].price, "manual", None,
                             roll)
     IN  /\ Charged(p)
         /\ subs' = IF p.ok
                    THEN [subs EXCEPT ![s] =
                            ExtendSubscriptionPeriod(@, next_end)]
                    ELSE subs
  /\ UNCHANGED <<calc, sched, batch, now, gateway, workers>>

\* ---------------------------------------------------------- billing engine
\* _get_subscriptions_due_for_payment (specification 4.6, step 1)
SubscriptionsDueForPayment ==
  {s \in SubIds : /\ subs[s].status = "active"
                  /\ subs[s].current_period_end <= now
                  /\ subs[s].auto_renew}

\* _get_failed_transactions(max_retries) (specification 4.6): the
\* subscriptions with a failed transaction that are past_due or pending,
\* have retries left and whose retry is due
FailedTransactions(max_retries) ==
  {s \in SubIds : /\ subs[s].status \in {"past_due", "pending"}
                  /\ subs[s].retry_count < max_retries
                  /\ subs[s].retry_at # None
                  /\ subs[s].retry_at <= now
                  /\ \E i \in TxIds : txs[i].sub = s /\ txs[i].status = "failed"}

\* _acquire_lock: the stub grants every request
AcquireLock(subscription_id) == TRUE

\* _release_lock (specification 4.6, step 2e: release lock in all cases),
\* on the number of locks the worker holds
ReleaseLock(held) == held - 1

\* the pool hands a task to its first idle worker
FreeWorker(w) ==
  /\ workers[w].pc = "idle"
  /\ Len(txs) + Cardinality({v \in Workers : workers[v].pc = "submitted"})
       < MaxTx
  /\ w = "w1" \/ workers["w1"].pc # "idle"

\* process_recurring_payments: a due subscription is handed to a pool worker
SubmitBilling(w, s) ==
  /\ FreeWorker(w)
  /\ s \in SubscriptionsDueForPayment
  /\ workers' = [workers EXCEPT
       ![w] = [pc |-> "submitted", kind |-> "billing", sub |-> s,
               obj |-> Snapshot(subs[s]), lock |-> workers[w].lock]]
  /\ UNCHANGED <<calc, sched, batch, zeroSubmitted, now, gateway, counter, gwTx,
                 stamp, subs, txs>>

\* retry_failed_payments: an eligible subscription is retried
SubmitRetry(w, s) ==
  /\ FreeWorker(w)
  /\ s \in FailedTransactions(DefaultMaxRetries)
  /\ workers' = [workers EXCEPT
       ![w] = [pc |-> "submitted", kind |-> "retry", sub |-> s,
               obj |-> Snapshot(subs[s]), lock |-> workers[w].lock]]
  /\ UNCHANGED <<calc, sched, batch, zeroSubmitted, now, gateway, counter, gwTx,
                 stamp, subs, txs>>

\* _process_subscription_payment, steps 1 and 2: the lock, then the charge
\* of plan.price through the payment processor
WorkerCharge(w, roll) ==
  /\ workers[w].pc = "submitted"
  /\ IF ~AcquireLock(workers[w].sub)
     THEN /\ roll = "ok"
          /\ workers' = [workers EXCEPT
               ![w] = [IdleWorker EXCEPT !.lock = workers[w].lock]]
          /\ UNCHANGED <<txs, counter, gwTx, stamp, zeroSubmitted>>
     ELSE /\ Len(txs) < MaxTx
          /\ LET subscription == workers[w].obj
                 p == ProcessPayment(workers[w].sub, subscription.user,
                        Plan[subscription.plan].price, "renewal",
                        subscription.current_period_end, roll)
             IN  /\ Charged(p)
                 /\ workers' = [workers EXCEPT
                      ![w].lock = @ + 1,
                      ![w].pc =
                        IF p.ok THEN "paid"
                        ELSE IF p.error = "insufficient_funds" THEN "funds"
                        ELSE IF p.error = "gateway_error" THEN "gwerror"
                        ELSE "error"]
  /\ UNCHANGED <<calc, sched, batch, now, gateway, subs>>

\* _extend_subscription (specification 4.6, step 2c)
ExtendSubscription(row, next_period_end) ==
  [row EXCEPT !.current_period_end = next_period_end, !.retry_count = 0]

\* the retry pipeline on success, leaving the retry count as it was
RetrySucceededKeepsCount(row, subscription) ==
  IF row.status \in {"past_due", "pending"}
  THEN [row EXCEPT !.status = "active", !.retry_at = None]
  ELSE row

\* the retry pipeline on success (specification 4.5: past_due --retry ok-->
\* active, pending --initial charge ok--> active)
RetrySucceeded(row, subscription) ==
  IF row.status = "past_due"
  THEN [row EXCEPT !.status = "active", !.retry_count = 0,
                   !.retry_at = None,
                   !.current_period_end = subscription.current_period_end
                      + Plan[subscription.plan].billing_cycle_days]
  ELSE IF row.status = "pending"
  THEN [row EXCEPT !.status = "active", !.retry_count = 0, !.retry_at = None]
  ELSE row

\* _cancel_subscription_for_non_payment
CancelSubscriptionForNonPayment(row, subscription) ==
  [row EXCEPT !.status = "cancelled", !.cancelled_at = now,
              !.retry_count = subscription.retry_count]

\* _schedule_retry (specification 4.5: active --charge fail--> past_due with
\* the retry scheduled)
ScheduleRetry(row, subscription, retry_date) ==
  [row EXCEPT !.retry_at = retry_date,
              !.retry_count = subscription.retry_count,
              !.status = IF @ = "active" THEN "past_due" ELSE @]

\* _handle_insufficient_funds cancelling only beyond max_retries
HandleInsufficientFundsBeyond(row, subscription) ==
  LET incremented == [subscription EXCEPT !.retry_count = @ + 1]
      retry_date == now + InitialDelay
                            * Pow(BackoffFactor, incremented.retry_count - 1)
  IN  IF incremented.retry_count > Plan[incremented.plan].max_retries
      THEN CancelSubscriptionForNonPayment(row, incremented)
      ELSE ScheduleRetry(row, incremented, retry_date)

\* _handle_insufficient_funds: the row of the subscription afterwards
HandleInsufficientFunds(row, subscription) ==
  LET incremented == [subscription EXCEPT !.retry_count = @ + 1]
      retry_date == now + InitialDelay
                            * Pow(BackoffFactor, incremented.retry_count - 1)
  IN  IF incremented.retry_count >= Plan[incremented.plan].max_retries
      THEN CancelSubscriptionForNonPayment(row, incremented)
      ELSE ScheduleRetry(row, incremented, retry_date)

\* _handle_payment_error: log and admin alert, the subscription is left alone
HandlePaymentError(row, subscription) == row

\* _process_subscription_payment with the release at the end of the try
\* block instead of a finally clause: the failure paths keep the lock
WorkerFinishNoFinally(w) ==
  /\ workers[w].pc \in {"paid", "funds", "gwerror", "error"}
  /\ LET s == workers[w].sub
         subscription == workers[w].obj
         next_period_end == subscription.current_period_end
                              + Plan[subscription.plan].billing_cycle_days
     IN  subs' = [subs EXCEPT ![s] =
           IF workers[w].pc = "paid"
           THEN IF workers[w].kind = "billing"
                THEN ExtendSubscription(@, next_period_end)
                ELSE RetrySucceeded(@, subscription)
           ELSE IF workers[w].pc = "funds"
           THEN HandleInsufficientFunds(@, subscription)
           ELSE IF workers[w].pc = "gwerror"
           THEN HandlePaymentError(@, subscription)
           ELSE @]
  /\ workers' = [workers EXCEPT
       ![w] = [IdleWorker EXCEPT !.lock =
                 IF workers[w].pc = "paid"
                 THEN ReleaseLock(workers[w].lock)
                 ELSE workers[w].lock]]
  /\ UNCHANGED <<calc, sched, batch, zeroSubmitted, now, gateway, counter, gwTx,
                 stamp, txs>>

\* _process_subscription_payment, steps 3 to 7: extension on success, the
\* failure handlers otherwise, and the release of the lock
WorkerFinish(w) ==
  /\ workers[w].pc \in {"paid", "funds", "gwerror", "error"}
  /\ LET s == workers[w].sub
         subscription == workers[w].obj
         next_period_end == subscription.current_period_end
                              + Plan[subscription.plan].billing_cycle_days
     IN  subs' = [subs EXCEPT ![s] =
           IF workers[w].pc = "paid"
           THEN IF workers[w].kind = "billing"
                THEN ExtendSubscription(@, next_period_end)
                ELSE RetrySucceeded(@, subscription)
           ELSE IF workers[w].pc = "funds"
           THEN HandleInsufficientFunds(@, subscription)
           ELSE IF workers[w].pc = "gwerror"
           THEN HandlePaymentError(@, subscription)
           ELSE @]
  /\ workers' = [workers EXCEPT
       ![w] = [IdleWorker EXCEPT !.lock = ReleaseLock(workers[w].lock)]]
  /\ UNCHANGED <<calc, sched, batch, zeroSubmitted, now, gateway, counter, gwTx,
                 stamp, txs>>

\* _process_subscription_payment when the extension, a failure handler or a
\* notification raises before the row is written: the finally clause
\* releases the lock and the outer except clause returns the failure.  (An
\* exception after the write differs from WorkerFinish only in the result
\* returned.)
WorkerRaises(w) ==
  /\ workers[w].pc \in {"paid", "funds", "gwerror"}
  /\ workers' = [workers EXCEPT
       ![w] = [IdleWorker EXCEPT !.lock = ReleaseLock(workers[w].lock)]]
  /\ UNCHANGED <<calc, sched, batch, zeroSubmitted, now, gateway, counter, gwTx,
                 stamp, subs, txs>>

\* ----------------------------------------------------- batch entry points
\* what one item of a batch can end in: the charge went through, the two
\* payment failures, an exception inside the item's processing, and an
\* exception that escapes it
Outcomes ==
  {"ok", "insufficient_funds", "gateway_error", "exception", "escaped"}

\* the dict one item contributes: the return value of the item's processing
\* (every one carries 'success'), or the dict the batch loop builds in its
\* except clause
ItemResult(id, outcome) ==
  [id |-> id, success |-> outcome = "ok",
   error |-> IF outcome = "ok" THEN "none" ELSE outcome]

\* process_recurring_payments, steps 1 and 2: the due subscriptions are
\* selected and every one is submitted to the pool
ProcessRecurringPayments(n) ==
  /\ batch.state = "idle"
  /\ batch' = [kind |-> "billing", state |-> "running",
               selected |-> [k \in 1..n |-> k], pending |-> 1..n,
               results |-> <<>>]
  /\ UNCHANGED <<calc, sched, zeroSubmitted, now, gateway, counter, gwTx, stamp, subs,
                 txs, workers>>

\* the as_completed loop with an except clause that re-raises
FutureCompletedAborting(k, outcome) ==
  /\ batch.kind = "billing"
  /\ batch.state = "running"
  /\ k \in batch.pending
  /\ batch' = IF outcome = "escaped"
              THEN [batch EXCEPT !.state = "raised"]
              ELSE [batch EXCEPT !.pending = @ \ {k},
                      !.results = Append(@, ItemResult(batch.selected[k],
                                                       outcome))]
  /\ UNCHANGED <<calc, sched, zeroSubmitted, now, gateway, counter, gwTx, stamp, subs,
                 txs, workers>>

\* process_recurring_payments, the as_completed loop: futures complete in
\* any order; the result of each is appended, and so is a failure entry for
\* a future that raised
FutureCompleted(k, outcome) ==
  /\ batch.kind = "billing"
  /\ batch.state = "running"
  /\ k \in batch.pending
  /\ batch' = [batch EXCEPT !.pending = @ \ {k},
                 !.results = Append(@, ItemResult(batch.selected[k],
                                                  outcome))]
  /\ UNCHANGED <<calc, sched, zeroSubmitted, now, gateway, counter, gwTx, stamp, subs,
                 txs, workers>>

\* retry_failed_payments, step 1: the eligible transactions are fetched
RetryFailedPayments(n) ==
  /\ batch.state = "idle"
  /\ batch' = [kind |-> "retry", state |-> "running",
               selected |-> [k \in 1..n |-> k], pending |-> 1..n,
               results |-> <<>>]
  /\ UNCHANGED <<calc, sched, zeroSubmitted, now, gateway, counter, gwTx, stamp, subs,
                 txs, workers>>

\* retry_failed_payments, step 2: the transactions are retried one after the
\* other, in the order fetched; an exception of one is turned into its entry
RetryPayment(outcome) ==
  /\ batch.kind = "retry"
  /\ batch.state = "running"
  /\ batch.pending # {}
  /\ LET k == CHOOSE i \in batch.pending : \A j \in batch.pending : i <= j
     IN  batch' = [batch EXCEPT !.pending = @ \ {k},
                     !.results = Append(@, ItemResult(batch.selected[k],
                                                      outcome))]
  /\ UNCHANGED <<calc, sched, zeroSubmitted, now, gateway, counter, gwTx, stamp, subs,
                 txs, workers>>

\* both entry points return the result list once the loop is over
BatchReturns ==
  /\ batch.state = "running"
  /\ batch.pending = {}
  /\ batch' = [batch EXCEPT !.state = "returned"]
  /\ UNCHANGED <<calc, sched, zeroSubmitted, now, gateway, counter, gwTx, stamp, subs,
                 txs, workers>>

\* -------------------------------------------------------------------- Next
Next ==
  \/ Tick
  \/ \E u \in Users, p \in PlanIds, roll \in Rolls :
       CreateSubscription(u, p, roll)
  \/ \E s \in SubIds, immediate \in BOOLEAN, roll \in Rolls :
       CancelSubscription(s, immediate, roll)
  \/ \E s \in SubIds, p \in PlanIds, roll \in Rolls :
       UpgradeSubscription(s, p, roll)
  \/ \E s \in SubIds, roll \in Rolls : RenewSubscription(s, roll)
  \/ \E w \in Workers, s \in SubIds : SubmitBilling(w, s)
  \/ \E w \in Workers, s \in SubIds : SubmitRetry(w, s)
  \/ \E w \in Workers, roll \in Rolls : WorkerCharge(w, roll)
  \/ \E w \in Workers : WorkerFinish(w)

Spec == Init /\ [][Next]_vars

\* the lifecycle manager alone, serving one subscription more
NextLifecycle ==
  \/ Tick
  \/ \E u \in Users, p \in PlanIds, roll \in Rolls :
       CreateSubscriptionUpTo(MaxSubs + 1, u, p, roll)
  \/ \E s \in SubIds, immediate \in BOOLEAN, roll \in Rolls :
       CancelSubscription(s, immediate, roll)
  \/ \E s \in SubIds, p \in PlanIds, roll \in Rolls :
       UpgradeSubscription(s, p, roll)
  \/ \E s \in SubIds, roll \in Rolls : RenewSubscription(s, roll)

SpecLifecycle == Init /\ [][NextLifecycle]_vars

\* the whole engine with the plans of price 0 among the inputs
NextFree ==
  \/ Tick
  \/ \E u \in Users, p \in AllPlanIds, roll \in Rolls :
       CreateSubscription(u, p, roll)
  \/ \E s \in SubIds, immediate \in BOOLEAN, roll \in Rolls :
       CancelSubscription(s, immediate, roll)
  \/ \E s \in SubIds, p \in AllPlanIds, roll \in Rolls :
       UpgradeSubscription(s, p, roll)
  \/ \E s \in SubIds, roll \in Rolls : RenewSubscription(s, roll)
  \/ \E w \in Workers, s \in SubIds : SubmitBilling(w, s)
  \/ \E w \in Workers, s \in SubIds : SubmitRetry(w, s)
  \/ \E w \in Workers, roll \in Rolls : WorkerCharge(w, roll)
  \/ \E w \in Workers : WorkerFinish(w)

SpecFree == Init /\ [][NextFree]_vars

\* the billing engine with workers whose extension, handler or notification
\* can raise
NextLocks ==
  \/ Next
  \/ \E w \in Workers : WorkerRaises(w)

SpecLocks == Init /\ [][NextLocks]_vars

\* one call of a batch entry point over a selection of up to MaxBatch items
NextBatch ==
  \/ \E n \in 0..MaxBatch : ProcessRecurringPayments(n)
  \/ \E k \in 1..MaxBatch, outcome \in Outcomes : FutureCompleted(k, outcome)
  \/ \E n \in 0..MaxBatch : RetryFailedPayments(n)
  \/ \E outcome \in Outcomes : RetryPayment(outcome)
  \/ BatchReturns

SpecBatch == Init /\ [][NextBatch]_vars

\* ---------------------------------------------------------- task scheduler
\* intervals, in days, handed to schedule_recurring_task
Intervals == {1, 2}

\* how the callable of a task ends for the driver waiting on its future
TaskOutcomes == {"returned", "raised", "timeout"}

TaskIds == DOMAIN sched.tasks

\* interval_map of _calculate_next_task_run for the type 'days', in days
IntervalMapDays == 1

\* _calculate_next_task_run for a task of type 'days'
CalculateNextTaskRun(task) ==
  IF task.last_run # None THEN task.last_run + IntervalMapDays ELSE None

\* schedule_recurring_task with an interval of whole days: the job
\* every(days).days.do(_wrap_task, task_id, task) and the ScheduledTask
ScheduleRecurringTask(interval) ==
  /\ Len(sched.tasks) < MaxTasks
  /\ sched' =
       [sched EXCEPT
          !.jobs = Append(@, [interval |-> interval,
                              next_run |-> now + interval]),
          !.tasks = Append(@, [schedule_type |-> "days",
                               interval |-> interval,
                               last_run |-> None,
                               next_run |-> now + interval,
                               is_active |-> TRUE]),
          !.started = Append(@, 0),
          !.abandoned = Append(@, 0)]
  /\ UNCHANGED <<calc, batch, zeroSubmitted, now, gateway, counter, gwTx, stamp,
                 subs, txs, workers>>

\* cancel_task
CancelTask(task_id) ==
  /\ sched' =
       IF task_id \notin TaskIds
       THEN [sched EXCEPT
               !.ret = [op |-> "cancel_task", id |-> task_id,
                        value |-> FALSE]]
       ELSE [sched EXCEPT
               !.tasks[task_id].is_active = FALSE,
               !.ret = [op |-> "cancel_task", id |-> task_id,
                        value |-> TRUE]]
  /\ UNCHANGED <<calc, batch, zeroSubmitted, now, gateway, counter, gwTx, stamp,
                 subs, txs, workers>>

\* get_task_status
GetTaskStatus(task_id) ==
  IF task_id \notin TaskIds
  THEN [id |-> None]
  ELSE [id |-> task_id,
        schedule_type |-> sched.tasks[task_id].schedule_type,
        schedule_params |-> sched.tasks[task_id].interval,
        last_run |-> sched.tasks[task_id].last_run,
        next_run |-> sched.tasks[task_id].next_run,
        is_active |-> sched.tasks[task_id].is_active]

\* start: a call while is_running is set returns at once; otherwise the
\* flag is set and a driver thread begins _run_scheduler
Start ==
  /\ ~sched.is_running
  /\ \E d \in DriverIds :
       /\ sched.drivers[d].pc = "none"
       /\ \A e \in DriverIds : sched.drivers[e].pc = "none" => d <= e
       /\ sched' = [sched EXCEPT
                      !.is_running = TRUE,
                      !.thread = d,
                      !.drivers[d] = [pc |-> "idle", job |-> 0, todo |-> {}]]
  /\ UNCHANGED <<calc, batch, zeroSubmitted, now, gateway, counter, gwTx, stamp,
                 subs, txs, workers>>

\* stop: the flag is cleared and self.thread is joined for ten seconds.  A
\* driver that sleeps between two passes sees the flag within the join and
\* ends; a driver inside a pass may outlast the join, which then returns
\* with the thread alive
Stop ==
  /\ sched.is_running
  /\ sched' =
       IF sched.thread \in DriverIds /\ sched.drivers[sched.thread].pc = "idle"
       THEN [sched EXCEPT !.is_running = FALSE,
                          !.drivers[sched.thread] = NoDriver]
       ELSE [sched EXCEPT !.is_running = FALSE]
  /\ UNCHANGED <<calc, batch, zeroSubmitted, now, gateway, counter, gwTx, stamp,
                 subs, txs, workers>>

\* the jobs run_pending finds due
DueJobs == {j \in TaskIds : sched.jobs[j].next_run <= now}

\* the first of the jobs left in the pass: run_pending runs them sorted by
\* next_run, jobs of equal next_run in the order of registration
FirstDue(todo) ==
  CHOOSE j \in todo :
    \A k \in todo :
      \/ sched.jobs[j].next_run < sched.jobs[k].next_run
      \/ sched.jobs[j].next_run = sched.jobs[k].next_run /\ j <= k

\* _run_scheduler with `while True`
DriverPassAlways(d) ==
  /\ sched.drivers[d].pc = "idle"
  /\ DueJobs # {}
  /\ sched' = [sched EXCEPT !.drivers[d].pc = "pass",
                            !.drivers[d].todo = DueJobs]
  /\ UNCHANGED <<calc, batch, zeroSubmitted, now, gateway, counter, gwTx, stamp,
                 subs, txs, workers>>

\* _run_scheduler: the loop test passed, run_pending collects the due jobs
DriverPass(d) ==
  /\ sched.drivers[d].pc = "idle"
  /\ sched.is_running
  /\ DueJobs # {}
  /\ sched' = [sched EXCEPT !.drivers[d].pc = "pass",
                            !.drivers[d].todo = DueJobs]
  /\ UNCHANGED <<calc, batch, zeroSubmitted, now, gateway, counter, gwTx, stamp,
                 subs, txs, workers>>

\* _run_scheduler: the loop test failed, the thread ends
DriverExit(d) ==
  /\ sched.drivers[d].pc = "idle"
  /\ ~sched.is_running
  /\ sched' = [sched EXCEPT !.drivers[d] = NoDriver]
  /\ UNCHANGED <<calc, batch, zeroSubmitted, now, gateway, counter, gwTx, stamp,
                 subs, txs, workers>>

\* run_pending calls _wrap_task of the next due job
EnterWrap(d) ==
  /\ sched.drivers[d].pc = "pass"
  /\ sched.drivers[d].todo # {}
  /\ LET j == FirstDue(sched.drivers[d].todo)
     IN  sched' = [sched EXCEPT !.drivers[d].pc = "wrap",
                                !.drivers[d].job = j,
                                !.drivers[d].todo = @ \ {j}]
  /\ UNCHANGED <<calc, batch, zeroSubmitted, now, gateway, counter, gwTx, stamp,
                 subs, txs, workers>>

\* run_pending has run every job it found due; the driver sleeps
PassEnds(d) ==
  /\ sched.drivers[d].pc = "pass"
  /\ sched.drivers[d].todo = {}
  /\ sched' = [sched EXCEPT !.drivers[d].pc = "idle",
                            !.drivers[d].job = 0]
  /\ UNCHANGED <<calc, batch, zeroSubmitted, now, gateway, counter, gwTx, stamp,
                 subs, txs, workers>>

\* _should_run_task answering for every registered task
ShouldRunTaskRegistered(task_id) == task_id \in TaskIds

\* _should_run_task
ShouldRunTask(task_id) ==
  IF task_id \notin TaskIds THEN FALSE ELSE sched.tasks[task_id].is_active

\* the job has run: the schedule library sets its next run
JobDone(s, j) ==
  [s EXCEPT !.jobs[j].next_run = now + s.jobs[j].interval]

\* _wrap_task, the test of _should_run_task: a task that should not run
\* returns at once
ShouldRunCheck(d) ==
  /\ sched.drivers[d].pc = "wrap"
  /\ LET j == sched.drivers[d].job
     IN  sched' =
           IF ShouldRunTask(j)
           THEN [sched EXCEPT !.drivers[d].pc = "checked"]
           ELSE [JobDone(sched, j) EXCEPT !.drivers[d].pc = "pass"]
  /\ UNCHANGED <<calc, batch, zeroSubmitted, now, gateway, counter, gwTx, stamp,
                 subs, txs, workers>>

\* _wrap_task, executor.submit(task): the callable is started
Submit(d) ==
  /\ sched.drivers[d].pc = "checked"
  /\ sched' = [sched EXCEPT !.drivers[d].pc = "running",
                            !.started[sched.drivers[d].job] = @ + 1,
                            !.logged = [task |-> sched.drivers[d].job,
                                        event |-> "starting"]]
  /\ UNCHANGED <<calc, batch, zeroSubmitted, now, gateway, counter, gwTx, stamp,
                 subs, txs, workers>>

\* _wrap_task without the except clause: the exception of the callable ends
\* the driver thread and the task is switched off
WrapTaskEndsUncaught(d, outcome) ==
  /\ sched.drivers[d].pc = "running"
  /\ LET j == sched.drivers[d].job
         ran == [sched.tasks[j] EXCEPT !.last_run = now]
         s == IF outcome = "returned"
              THEN [sched EXCEPT
                      !.tasks[j] =
                        [ran EXCEPT !.next_run = CalculateNextTaskRun(ran)],
                      !.logged = [task |-> j, event |-> "completed"]]
              ELSE [sched EXCEPT
                      !.tasks[j].is_active = FALSE,
                      !.abandoned[j] =
                        IF outcome = "timeout" THEN @ + 1 ELSE @,
                      !.logged = [task |-> j, event |-> "failed"]]
     IN  sched' = [JobDone(s, j) EXCEPT !.drivers[d].pc = "pass"]
  /\ UNCHANGED <<calc, batch, zeroSubmitted, now, gateway, counter, gwTx, stamp,
                 subs, txs, workers>>

\* _wrap_task, future.result(timeout=300) answers: when the callable
\* returned, last_run and next_run are written and the run is logged as
\* completed; an exception of the callable or the timeout is caught and
\* logged as failed.  After a timeout the callable goes on in its pool
\* thread: a running future cannot be cancelled
WrapTaskEnds(d, outcome) ==
  /\ sched.drivers[d].pc = "running"
  /\ LET j == sched.drivers[d].job
         ran == [sched.tasks[j] EXCEPT !.last_run = now]
         s == IF outcome = "returned"
              THEN [sched EXCEPT
                      !.tasks[j] =
                        [ran EXCEPT !.next_run = CalculateNextTaskRun(ran)],
                      !.logged = [task |-> j, event |-> "completed"]]
              ELSE [sched EXCEPT
                      !.abandoned[j] =
                        IF outcome = "timeout" THEN @ + 1 ELSE @,
                      !.logged = [task |-> j, event |-> "failed"]]
     IN  sched' = [JobDone(s, j) EXCEPT !.drivers[d].pc = "pass"]
  /\ UNCHANGED <<calc, batch, zeroSubmitted, now, gateway, counter, gwTx, stamp,
                 subs, txs, workers>>

\* a callable the driver has stopped waiting for ends in its pool thread
CallableEnds(j) ==
  /\ j \in TaskIds
  /\ sched.abandoned[j] > 0
  /\ sched' = [sched EXCEPT !.abandoned[j] = @ - 1]
  /\ UNCHANGED <<calc, batch, zeroSubmitted, now, gateway, counter, gwTx, stamp,
                 subs, txs, workers>>

\* the task scheduler with its callers and its driver thread
NextScheduler ==
  \/ Tick
  \/ \E interval \in Intervals : ScheduleRecurringTask(interval)
  \/ \E task_id \in 1..(MaxTasks + 1) : CancelTask(task_id)
  \/ Start
  \/ Stop
  \/ \E d \in DriverIds : DriverPass(d)
  \/ \E d \in DriverIds : DriverExit(d)
  \/ \E d \in DriverIds : EnterWrap(d)
  \/ \E d \in DriverIds : PassEnds(d)
  \/ \E d \in DriverIds : ShouldRunCheck(d)
  \/ \E d \in DriverIds : Submit(d)
  \/ \E d \in DriverIds, outcome \in TaskOutcomes : WrapTaskEnds(d, outcome)
  \/ \E j \in 1..MaxTasks : CallableEnds(j)

SpecScheduler == Init /\ [][NextScheduler]_vars


\* the steps of driver thread d
DriverStep(d) ==
  \/ DriverPass(d)
  \/ DriverExit(d)
  \/ EnterWrap(d)
  \/ PassEnds(d)
  \/ ShouldRunCheck(d)
  \/ Submit(d)
  \/ \E outcome \in TaskOutcomes : WrapTaskEnds(d, outcome)

\* a driver thread is not held up for ever: its waits are the sleep of one
\* second and future.result with its timeout
SpecSchedulerFair ==
  SpecScheduler /\ \A d \in DriverIds : WF_vars(DriverStep(d))

\* ------------------------------------------------------------ computations
\* BillingEngine.retry_config['max_delay']
MaxDelay == 24

\* Settings.RETRY_DELAY_DAYS, the default
RetryDelayDays == <<1, 3, 7>>

\* an active subscription of plan p in its first period with n failures
\* counted
FailingSub(p, n) ==
  [BlankSub EXCEPT !.user = "u1", !.plan = p, !.first_plan = p,
                   !.status = "active", !.current_period_start = 0,
                   !.current_period_end = Plan[p].billing_cycle_days,
                   !.retry_count = n]

\* a subscription whose period began at day start and lasts total days
PeriodSub(p, start, total) ==
  [BlankSub EXCEPT !.user = "u1", !.plan = p, !.first_plan = p,
                   !.status = "active", !.current_period_start = start,
                   !.current_period_end = start + total]

\* the arguments of the calls: _handle_insufficient_funds for every plan and
\* retry count, _calculate_prorated_amount for every pair of plans and
\* every period around the clock
CalcInputs ==
  {[op |-> "handle_insufficient_funds", done |-> FALSE, at |-> 0,
    sub |-> FailingSub(p, n), new_plan |-> p,
    row |-> FailingSub(p, n), amount |-> [num |-> 0, den |-> 1]] :
     p \in AllPlanIds, n \in 0..MaxRetryCount}
  \cup
  {[op |-> "calculate_prorated_amount", done |-> FALSE, at |-> 0,
    sub |-> PeriodSub(c, start, total), new_plan |-> n,
    row |-> PeriodSub(c, start, total), amount |-> [num |-> 0, den |-> 1]] :
     c \in AllPlanIds, n \in AllPlanIds,
     start \in (0 - MaxTotalDays - 1)..1, total \in 1..MaxTotalDays}

\* the state before a call, with the arguments drawn
InitCalc ==
  /\ calc \in CalcInputs
  /\ now = 0
  /\ gateway \in Gateways
  /\ counter = 0
  /\ gwTx = <<>>
  /\ stamp = 0
  /\ subs = <<>>
  /\ txs = <<>>
  /\ workers = [w \in Workers |-> IdleWorker]
  /\ batch = IdleBatch
  /\ sched = NoTasks
  /\ zeroSubmitted = FALSE

\* the call of _handle_insufficient_funds
CallHandleInsufficientFunds ==
  /\ calc.op = "handle_insufficient_funds"
  /\ ~calc.done
  /\ calc' = [calc EXCEPT
                !.done = TRUE, !.at = now,
                !.row = HandleInsufficientFunds(calc.sub, Snapshot(calc.sub))]
  /\ UNCHANGED <<sched, batch, zeroSubmitted, now, gateway, counter, gwTx,
                 stamp, subs, txs, workers>>

\* the call of _calculate_prorated_amount
CallCalculateProratedAmount ==
  /\ calc.op = "calculate_prorated_amount"
  /\ ~calc.done
  /\ calc' = [calc EXCEPT
                !.done = TRUE, !.at = now,
                !.amount = CalculateProratedAmount(calc.sub,
                             Plan[calc.sub.plan], Plan[calc.new_plan])]
  /\ UNCHANGED <<sched, batch, zeroSubmitted, now, gateway, counter, gwTx,
                 stamp, subs, txs, workers>>

\* one call of a computation at some time of the clock
NextCalc ==
  \/ Tick
  \/ CallHandleInsufficientFunds
  \/ CallCalculateProratedAmount

SpecCalc == InitCalc /\ [][NextCalc]_vars

TypeOK ==
  /\ now \in 0..MaxTime
  /\ Len(subs) <= MaxSubs
  /\ Len(txs) <= MaxTx


\* ------------------------------------------------------------ properties
\* a worker is inside the charge-and-mutate section of its subscription from
\* the granted lock until the release
InSection(w) == workers[w].pc \in {"paid", "funds", "gwerror"}

\* C1: at most one execution is inside the charge-and-mutate section of a
\* subscription at any time.
C1_MutualExclusion ==
  \A v, w \in Workers :
    (v # w /\ InSection(v) /\ InSection(w))
      => workers[v].sub # workers[w].sub

\* C2: a billing tick delivered twice for the same subscription and period
\* leaves at most one completed transaction for that subscription and period.
C2_OneCompletedChargePerPeriod ==
  \A i, j \in TxIds :
    (/\ i < j
     /\ txs[i].type = "renewal" /\ txs[j].type = "renewal"
     /\ txs[i].status = "completed" /\ txs[j].status = "completed"
     /\ txs[i].sub = txs[j].sub)
      => txs[i].billing_cycle # txs[j].billing_cycle

\* C3: in every reachable state every subscription has
\* retry_count <= plan.max_retries.
C3_RetryCountBounded ==
  \A s \in SubIds : subs[s].retry_count <= Plan[subs[s].plan].max_retries

\* C4: for every user and plan at most one subscription is pending, trial,
\* active or past_due.
C4_OneLiveSubscriptionPerUserPlan ==
  \A s, t \in SubIds :
    (/\ s # t
     /\ subs[s].user = subs[t].user /\ subs[s].plan = subs[t].plan
     /\ subs[s].status \in NonTerminal)
      => subs[t].status \notin NonTerminal

\* C5: once a subscription is cancelled or expired no operation changes its
\* status, plan_id, current_period_start, current_period_end, retry_count or
\* cancel_at_period_end.
C5_TerminalIsFrozen ==
  [][\A s \in SubIds :
       subs[s].status \in Terminal =>
         /\ subs'[s].status = subs[s].status
         /\ subs'[s].plan = subs[s].plan
         /\ subs'[s].current_period_start = subs[s].current_period_start
         /\ subs'[s].current_period_end = subs[s].current_period_end
         /\ subs'[s].retry_count = subs[s].retry_count
         /\ subs'[s].cancel_at_period_end = subs[s].cancel_at_period_end]_vars

\* C6: every transaction of a cancelled subscription is no newer than its
\* cancelled_at, every transaction of an expired subscription no newer than
\* its current_period_end.
C6_NoTransactionAfterTerminal ==
  \A i \in TxIds :
    txs[i].sub \in SubIds =>
      LET sub == subs[txs[i].sub]
      IN  /\ sub.status = "cancelled" => txs[i].created_at <= sub.cancelled_at
          /\ sub.status = "expired" =>
               txs[i].created_at <= sub.current_period_end

CompletedCharges(s) ==
  {i \in TxIds : /\ txs[i].sub = s /\ txs[i].status = "completed"
                 /\ txs[i].type # "refund"}

Refunds(s) == {i \in TxIds : txs[i].sub = s /\ txs[i].type = "refund"}

PeriodsCovered(sub) ==
  (sub.current_period_end - sub.current_period_start)
    \div Plan[sub.plan].billing_cycle_days

\* the first period of a subscription created with a trial is not charged
\* at creation
TrialPeriods(sub) == IF sub.trial_end # None THEN 1 ELSE 0

\* C7: for a subscription with no upgrades and no refunds the sum of its
\* completed charges is plan.price times the number of billing periods
\* covered: one extension by one cycle per completed renewal charge, and no
\* extension without a completed charge.  (The period opened by a trial is
\* left out of the count, and so is a subscription a worker is busy with.)
C7_ChargesMatchPeriods ==
  \A s \in SubIds :
    (/\ subs[s].plan = subs[s].first_plan
     /\ Refunds(s) = {}
     /\ \A w \in Workers : workers[w].sub # s)
      => SumAmounts(CompletedCharges(s), [i \in TxIds |-> 1])
           = Plan[subs[s].plan].price
               * (PeriodsCovered(subs[s]) - TrialPeriods(subs[s]))

\* C8: every completed transaction has a non-empty gateway_reference.
C8_CompletedHasReference ==
  \A i \in TxIds :
    txs[i].status = "completed" => txs[i].gateway_reference # <<>>

C8_Witness ==
  \E i \in TxIds : txs[i].status = "completed" /\ txs[i].type # "refund"

C10_FailedCreateLeavesPending ==
  \A i \in TxIds :
    (txs[i].type = "initial" /\ txs[i].status = "failed") =>
      \E s \in SubIds :
        /\ subs[s].user = txs[i].user
        /\ Plan[subs[s].first_plan].price = txs[i].amount
        /\ subs[s].status \in {"pending", "cancelled"}
        /\ subs[s].retry_count >= 1

\* a billing or retry worker w ends its task in this step
Finishes(w, kind, pcs) ==
  /\ workers[w].kind = kind
  /\ workers[w].pc \in pcs
  /\ workers'[w].pc = "idle"

\* C11: when the billing scan's charge of a due active subscription
\* succeeds, the subscription afterwards has its previous current_period_end
\* plus plan.billing_cycle_days, retry_count 0 and status active.
C11_BillingSuccessExtends ==
  [][\A w \in Workers :
       Finishes(w, "billing", {"paid"}) =>
         LET s == workers[w].sub
         IN  /\ subs'[s].current_period_end
                  = subs[s].current_period_end
                      + Plan[subs[s].plan].billing_cycle_days
             /\ subs'[s].retry_count = 0
             /\ subs'[s].status = "active"]_vars

\* this step appends a failed manual renewal charge of subscription s
ManualRenewalFails(s) ==
  /\ Len(txs') = Len(txs) + 1
  /\ txs'[Len(txs')].sub = s
  /\ txs'[Len(txs')].type = "manual"
  /\ txs'[Len(txs')].status = "failed"

\* C12: when a renewal charge of an active subscription fails and retries
\* remain (billing scan or manual renew_subscription), the subscription
\* becomes past_due and a retry is scheduled for it.
C12_FailedRenewalGoesPastDue ==
  [][\A s \in SubIds :
       (/\ subs[s].status = "active"
        /\ subs[s].retry_count + 1 < Plan[subs[s].plan].max_retries
        /\ \/ ManualRenewalFails(s)
           \/ \E w \in Workers :
                /\ workers[w].sub = s
                /\ Finishes(w, "billing", {"funds", "gwerror"}))
         => /\ subs'[s].status = "past_due"
            /\ subs'[s].retry_at # None
            /\ subs'[s].retry_at >= now]_vars

\* C13: when a scheduled charge fails with a gateway error other than
\* insufficient funds, retry_count is left unchanged and a retry is scheduled
\* at now + 1 hour (on the day scale of the clock: between now and now + 1).
C13_GatewayErrorSchedulesRetry ==
  [][\A w \in Workers :
       (Finishes(w, "billing", {"gwerror"})
          \/ Finishes(w, "retry", {"gwerror"})) =>
         LET s == workers[w].sub
         IN  /\ subs'[s].retry_count = subs[s].retry_count
             /\ subs'[s].retry_at # None
             /\ subs'[s].retry_at >= now
             /\ subs'[s].retry_at <= now + 1]_vars

\* C14: the retry sweep charges only a subscription that is past_due or
\* pending, has retry_count < max_retries and whose retry_at has come.
C14_SweepChargesOnlyEligible ==
  [][\A w \in Workers :
       (/\ workers[w].kind = "retry"
        /\ workers[w].pc = "submitted"
        /\ workers'[w].pc \in {"paid", "funds", "gwerror"}) =>
         LET sub == subs[workers[w].sub]
         IN  /\ sub.status \in {"past_due", "pending"}
             /\ sub.retry_count < DefaultMaxRetries
             /\ sub.retry_at # None
             /\ sub.retry_at <= now]_vars

\* C15: when the retry sweep's charge succeeds for a subscription that is
\* pending or past_due, the subscription becomes active with retry_count 0.
C15_RetrySuccessActivates ==
  [][\A w \in Workers :
       (/\ Finishes(w, "retry", {"paid"})
        /\ subs[workers[w].sub].status \in {"pending", "past_due"}) =>
         /\ subs'[workers[w].sub].status = "active"
         /\ subs'[workers[w].sub].retry_count = 0]_vars

\* the sweep's charge of a past_due subscription with a counted failure has
\* gone through
C15_Witness ==
  \E w \in Workers :
    /\ workers[w].kind = "retry"
    /\ workers[w].pc = "paid"
    /\ subs[workers[w].sub].status = "past_due"
    /\ subs[workers[w].sub].retry_count >= 1

\* C16: a batch returns exactly one result entry for every item it selected,
\* whatever the items end in; no item's failure aborts the batch.
C16_OneResultPerItem ==
  /\ batch.state # "raised"
  /\ batch.state = "returned" =>
       /\ Len(batch.results) = Len(batch.selected)
       /\ \A k \in DOMAIN batch.selected :
            Cardinality({j \in DOMAIN batch.results :
                           batch.results[j].id = batch.selected[k]}) = 1

\* a batch of several items has returned with successes and failures mixed
C16_Witness ==
  /\ batch.state = "returned"
  /\ Len(batch.selected) >= 2
  /\ \E i, j \in DOMAIN batch.results :
       /\ batch.results[i].success
       /\ batch.results[j].error \in {"exception", "escaped"}

\* the subscription row this step creates
Created == subs'[Len(subs')]

\* C17: create_subscription on a plan with a trial creates the subscription
\* with status trial, current_period_start = now, trial_end = now +
\* trial_period_days, current_period_end = now + billing_cycle_days, and no
\* transaction.
C17_TrialCreate ==
  [][(/\ Len(subs') = Len(subs) + 1
      /\ Plan[Created.plan].trial_period_days > 0) =>
        /\ Created.status = "trial"
        /\ Created.current_period_start = now
        /\ Created.trial_end = now + Plan[Created.plan].trial_period_days
        /\ Created.current_period_end
             = now + Plan[Created.plan].billing_cycle_days
        /\ txs' = txs]_vars

\* C18: create_subscription on a plan without trial charges plan.price minus
\* the discount, and after the charge succeeded the subscription is active.
C18_PaidCreateIsActive ==
  [][(/\ Len(subs') = Len(subs) + 1
      /\ Plan[Created.plan].trial_period_days = 0) =>
        /\ Len(txs') = Len(txs) + 1
        /\ txs'[Len(txs')].status = "completed"
        /\ txs'[Len(txs')].amount
             = Plan[Created.plan].price - ApplyPromoCode("")
        /\ Created.status = "active"]_vars

\* C19: when the initial charge of create_subscription fails, a subscription
\* record exists afterwards with status pending, retry_count 1 and a retry
\* scheduled.
C19_FailedCreatePersistsPending ==
  [][(/\ Len(txs') = Len(txs) + 1
      /\ txs'[Len(txs')].type = "initial"
      /\ txs'[Len(txs')].status = "failed") =>
        /\ Len(subs') = Len(subs) + 1
        /\ Created.user = txs'[Len(txs')].user
        /\ Created.status = "pending"
        /\ Created.retry_count = 1
        /\ Created.retry_at # None]_vars

Appended(s, type) ==
  /\ Len(txs') = Len(txs) + 1
  /\ txs'[Len(txs')].sub = s
  /\ txs'[Len(txs')].type = type

\* C21: cancel_subscription(immediate=false) sets cancel_at_period_end and
\* leaves status and period unchanged; afterwards the subscription is not
\* taken by the billing scan for a further period.
C21_CancelAtPeriodEndStopsBilling ==
  [][/\ \A s \in SubIds :
          (~subs[s].cancel_at_period_end /\ subs'[s].cancel_at_period_end)
            => /\ subs'[s].status = subs[s].status
               /\ subs'[s].current_period_start = subs[s].current_period_start
               /\ subs'[s].current_period_end = subs[s].current_period_end
     /\ \A w \in Workers :
          (/\ workers[w].pc = "idle"
           /\ workers'[w].pc = "submitted"
           /\ workers'[w].kind = "billing")
            => ~subs[workers'[w].sub].cancel_at_period_end]_vars

C23_UpgradeRequiresActive ==
  [][\A s \in SubIds :
       (subs'[s].plan # subs[s].plan \/ Appended(s, "upgrade"))
         => subs[s].status \in {"active", "trial"}]_vars

\* C24: an upgrade to a plan whose price is not strictly greater neither
\* charges nor changes the subscription: the price of a subscription's plan
\* strictly increases with every change of plan, and an upgrade charge is
\* made only while a more expensive plan exists.
C24_UpgradePriceIncreases ==
  [][\A s \in SubIds :
       /\ subs'[s].plan # subs[s].plan =>
            Plan[subs'[s].plan].price > Plan[subs[s].plan].price
       /\ Appended(s, "upgrade") =>
            \E q \in AllPlanIds :
              Plan[q].price > Plan[subs[s].plan].price]_vars

C24_Witness ==
  \E s \in SubIds :
    /\ subs[s].plan # subs[s].first_plan
    /\ Plan[subs[s].plan].price > Plan[subs[s].first_plan].price

\* C25: when the prorated charge of an upgrade fails the subscription is
\* unchanged; plan_id is swapped only together with the completed prorated
\* charge, or without a charge when the prorated amount is 0.
C25_FailedUpgradeChargeAborts ==
  [][\A s \in SubIds :
       /\ (Appended(s, "upgrade") /\ txs'[Len(txs')].status = "failed")
            => subs'[s] = subs[s]
       /\ subs'[s].plan # subs[s].plan =>
            \/ /\ Appended(s, "upgrade")
               /\ txs'[Len(txs')].status = "completed"
            \/ /\ txs' = txs
               /\ CalculateProratedAmount(subs[s], Plan[subs[s].plan],
                                          Plan[subs'[s].plan]).num = 0]_vars

\* a prorated charge failed and the subscription is on the plan it had
C25_Witness ==
  \E i \in TxIds :
    /\ txs[i].type = "upgrade"
    /\ txs[i].status = "failed"
    /\ subs[txs[i].sub].plan = subs[txs[i].sub].first_plan

\* C26: a successful upgrade changes plan_id, leaves current_period_start,
\* current_period_end and status unchanged and sets retry_count to 0.
C26_UpgradeFrame ==
  [][\A s \in SubIds :
       subs'[s].plan # subs[s].plan =>
         /\ subs'[s].current_period_start = subs[s].current_period_start
         /\ subs'[s].current_period_end = subs[s].current_period_end
         /\ subs'[s].status = subs[s].status
         /\ subs'[s].retry_count = 0]_vars

\* a subscription with a counted failure was upgraded
C26_Witness ==
  \E s \in SubIds :
    /\ subs[s].plan # subs[s].first_plan
    /\ subs[s].status = "past_due"
    /\ subs[s].retry_count = 0

\* C27: renew_subscription charges plan.price only when the subscription is
\* active, extends current_period_end by exactly billing_cycle_days when the
\* charge completed, and changes nothing otherwise.
C27_RenewOnlyActive ==
  [][\A s \in SubIds :
       /\ Appended(s, "manual") =>
            /\ subs[s].status = "active"
            /\ txs'[Len(txs')].amount = Plan[subs[s].plan].price
            /\ subs'[s] =
                 IF txs'[Len(txs')].status = "completed"
                 THEN [subs[s] EXCEPT !.current_period_end =
                         @ + Plan[subs[s].plan].billing_cycle_days]
                 ELSE subs[s]
       /\ (workers' = workers
             /\ subs'[s].current_period_end # subs[s].current_period_end)
            => /\ Appended(s, "manual")
               /\ txs'[Len(txs')].status = "completed"]_vars

C27_Witness ==
  \E i \in TxIds :
    /\ txs[i].type = "manual"
    /\ txs[i].status = "completed"
    /\ subs[txs[i].sub].current_period_end
         > subs[txs[i].sub].current_period_start
             + Plan[subs[txs[i].sub].plan].billing_cycle_days - 1

\* C28: a subscription created with a trial does not stay in trial after
\* trial_end, and its first successful charge makes it active with
\* current_period_end unchanged from the value set at creation.
C28_TrialConversion ==
  [][\A s \in SubIds :
       /\ subs'[s].status = "trial" => now <= subs'[s].trial_end
       /\ \A w \in Workers :
            (/\ workers[w].sub = s
             /\ Finishes(w, "billing", {"paid"})
             /\ subs[s].trial_end # None
             /\ Cardinality(CompletedCharges(s)) = 1)
              => /\ subs'[s].status = "active"
                 /\ subs'[s].current_period_end
                      = subs[s].current_period_start
                          + Plan[subs[s].first_plan].billing_cycle_days]_vars

\* C29: no operation hands a charge of amount 0 to the payment processor.
C29_NoZeroCharge == ~zeroSubmitted

\* how often the callable of task j has been started
Started(j) == IF j \in TaskIds THEN sched.started[j] ELSE 0

\* a tick of task j has passed the test of _should_run_task and has not
\* yet started the callable
TickInFlight(j) ==
  \E d \in DriverIds :
    sched.drivers[d].pc = "checked" /\ sched.drivers[d].job = j

StartCounts == 0..((MaxTime + 1) * MaxDrivers)

\* C30: after cancel_task(task_id) returned true the callable is not started
\* on any later due tick, and the task stays registered with
\* is_active = false in get_task_status; cancel_task on an unknown id
\* returns false and changes nothing.
C30_CancelledTaskNeverStarts ==
  /\ \A j \in 1..MaxTasks : \A n \in StartCounts :
       []((/\ j \in TaskIds
           /\ ~sched.tasks[j].is_active
           /\ ~TickInFlight(j)
           /\ Started(j) = n) => [](Started(j) = n))
  /\ [][\A j \in TaskIds :
          ~sched.tasks[j].is_active =>
            /\ GetTaskStatus(j)'.id = j
            /\ GetTaskStatus(j)'.is_active = FALSE]_vars
  /\ [][\A id \in 1..(MaxTasks + 1) :
          (/\ sched'.ret # sched.ret
           /\ sched'.ret.op = "cancel_task"
           /\ sched'.ret.id = id) =>
            IF sched'.ret.value
            THEN /\ id \in TaskIds
                 /\ GetTaskStatus(id)'.is_active = FALSE
            ELSE /\ id \notin TaskIds
                 /\ GetTaskStatus(id)'.id = None
                 /\ sched' = [sched EXCEPT !.ret = sched'.ret]]_vars

\* a tick of a task that has run once falls due after its cancel_task
\* returned true
C30_Witness ==
  /\ sched.ret = [op |-> "cancel_task", id |-> 1, value |-> TRUE]
  /\ Started(1) = 1
  /\ \E d \in DriverIds :
       sched.drivers[d].pc = "wrap" /\ sched.drivers[d].job = 1

\* the invocations of task j's callable that are running in the pool: those
\* a driver waits for and those left behind by a timeout
Running(j) ==
  sched.abandoned[j]
    + Cardinality({d \in DriverIds :
                     sched.drivers[d].pc = "running"
                       /\ sched.drivers[d].job = j})

\* C31: at most one invocation of the same task's callable is running at
\* any time; an invocation that exceeded the timeout is no longer running
\* when a later tick of the task starts a new one.
C31_NoOverlappingRuns == \A j \in TaskIds : Running(j) <= 1

\* driver d ends a run of task j in this step
RunEnds(d, j) ==
  /\ sched.drivers[d].pc = "running"
  /\ sched.drivers[d].job = j
  /\ sched'.drivers[d].pc = "pass"

C33_StopEndsDispatch ==
  /\ [][\A d \in DriverIds :
          (sched.drivers[d].pc = "idle" /\ sched'.drivers[d].pc = "pass")
            => sched.is_running]_vars
  /\ [][\A j \in TaskIds :
          sched'.started[j] # sched.started[j] =>
            \E d \in DriverIds :
              sched.drivers[d].pc = "checked" /\ sched.drivers[d].job = j]_vars
  /\ (<>[](~sched.is_running)
        => <>[](\A d \in DriverIds : sched.drivers[d].pc = "none"))

\* stop was called while a pass was about to start a task
C33_Witness ==
  /\ ~sched.is_running
  /\ \E d \in DriverIds : sched.drivers[d].pc = "checked"

\* C37: every completed invocation of a task updates its last_run, whether
\* the callable returned, raised or timed out.
C37_LastRunAlwaysUpdated ==
  [][\A d \in DriverIds : \A j \in TaskIds :
       RunEnds(d, j) => sched'.tasks[j].last_run = now]_vars

\* C38: the reported next_run of an interval task is now + interval at
\* registration and last_run + interval, for the interval requested, after
\* each completed run, which is when the job is dispatched next.
C38_NextRunFollowsInterval ==
  [][/\ Len(sched'.tasks) > Len(sched.tasks) =>
          sched'.tasks[Len(sched'.tasks)].next_run
            = now + sched'.tasks[Len(sched'.tasks)].interval
     /\ \A d \in DriverIds : \A j \in TaskIds :
          (RunEnds(d, j)
             /\ sched'.logged = [task |-> j, event |-> "completed"])
            => /\ sched'.tasks[j].next_run
                    = sched'.tasks[j].last_run + sched.tasks[j].interval
               /\ sched'.tasks[j].next_run = sched'.jobs[j].next_run]_vars

\* C40: across any sequence of start() and stop() calls at most one driver
\* thread executes the dispatch loop at any time.
C40_OneDriver ==
  Cardinality({d \in DriverIds : sched.drivers[d].pc # "none"}) <= 1

\* C34: every lock a billing worker acquired is released before the worker
\* returns, on every path; when all workers have returned no lock is held,
\* and a lock that was not acquired is never released.
C34_LockReleased ==
  \A w \in Workers :
    /\ workers[w].lock \in {0, 1}
    /\ workers[w].pc \in {"idle", "submitted"} => workers[w].lock = 0
    /\ workers[w].pc \in {"paid", "funds", "gwerror", "error"}
         => workers[w].lock = 1

\* a worker has returned through the handler of InsufficientFunds
C34_Witness ==
  /\ \A w \in Workers : workers[w].pc = "idle" /\ workers[w].lock = 0
  /\ \E s \in SubIds : subs[s].status = "past_due" /\ subs[s].retry_count > 0

\* C35: after the n-th consecutive InsufficientFunds failure with retries
\* remaining the retry is scheduled at now + 1 day * 2^(n-1), and this
\* delay exceeds neither 24 days nor the delay RETRY_DELAY_DAYS gives for
\* that attempt.
C35_RetryDelayCapped ==
  (/\ calc.op = "handle_insufficient_funds"
   /\ calc.done
   /\ calc.row.status # "cancelled")
    => LET n == calc.row.retry_count
           delay == calc.row.retry_at - calc.at
       IN  /\ n = calc.sub.retry_count + 1
           /\ delay = Pow(2, n - 1)
           /\ delay <= MaxDelay
           /\ n <= Len(RetryDelayDays) => delay <= RetryDelayDays[n]

\* C36: _calculate_prorated_amount equals the reference prorate (days used
\* clamped to the period, the result rounded half-up to two decimal places,
\* that is to whole minor units); it is never negative, is 0 when no day
\* remains and stays within [0, new_plan.price].
C36_ProrateMatchesReference ==
  (calc.op = "calculate_prorated_amount" /\ calc.done)
    => LET sub == calc.sub
           total == sub.current_period_end - sub.current_period_start
           elapsed == calc.at - sub.current_period_start
           used == IF elapsed < 0 THEN 0
                   ELSE IF elapsed > total THEN total ELSE elapsed
           remaining == total - used
           reference ==
             RoundHalfUp(Max(0, Plan[calc.new_plan].price * remaining
                                  - Plan[sub.plan].price * used), total)
       IN  /\ calc.amount.num = reference * calc.amount.den
           /\ calc.amount.num >= 0
           /\ calc.amount.num <= Plan[calc.new_plan].price * calc.amount.den
           /\ remaining = 0 => calc.amount.num = 0

\* C39: every subscription record has current_period_start <
\* current_period_end and, when trial_end is set, current_period_start <=
\* trial_end <= current_period_end, for every plan.
C39_PeriodWellFormed ==
  \A s \in SubIds :
    /\ subs[s].current_period_start < subs[s].current_period_end
    /\ subs[s].trial_end # None =>
         /\ subs[s].current_period_start <= subs[s].trial_end
         /\ subs[s].trial_end <= subs[s].current_period_end

====
